---- MODULE Spec2Model ----
(***************************************************************************)
(* Valuation engine of the baseball dashboard.                             *)
(*                                                                         *)
(* The repository holds two generations of calculateBaseValues:            *)
(*   - src/unnamed/part_001:192-401, which takes an exclusion set          *)
(*     (modelled by calculateBaseValues), and                              *)
(*   - src/webapp/src/lib/valuation.js:3-161, the three-parameter library  *)
(*     function that App.jsx imports (modelled by calculateBaseValuesLib). *)
(*                                                                         *)
(* Numbers.  The code computes in IEEE doubles.  Here every raw stat is    *)
(* an integer number of units (ERA in 0.5, WHIP in 0.1, the others in 1).  *)
(* A mean is kept as the pair (sum, count); an impact value is kept as an  *)
(* integer multiple of a positive factor common to the whole population    *)
(* (ERA impact times 9*count, WHIP impact times count).  A z term          *)
(*      (v - mean) / std,   std = sqrt(sqSum/count - mean*mean)            *)
(* is unchanged when v is multiplied by a positive factor and equals       *)
(*      (count*v - sum) / sqrt(count*sqSum - sum*sum),                     *)
(* which is what zTerm computes, as a fixed-point number with ZScale units *)
(* per 1; the square root is a fixed-point floor square root.  A monetary  *)
(* value (x / positiveSum) * poolAmount is kept as an exact fraction.      *)
(***************************************************************************)
EXTENDS Integers, Sequences, FiniteSets, TLC

VARIABLES rawData, committedAdjustments, pendingAdjustments, poolAmount,
          excludedPlayerIds, result, display, libResult, libDisplay,
          baseData, processedData, pc,
          loading, isSaving, savingPending, edits,
          saves, savingValues, adjustmentsTable, player_values

vars == <<rawData, committedAdjustments, pendingAdjustments, poolAmount,
          excludedPlayerIds, result, display, libResult, libDisplay,
          baseData, processedData, pc,
          loading, isSaving, savingPending, edits,
          saves, savingValues, adjustmentsTable, player_values>>

---------------------------------------------------------------------------
(* Bounds of the model *)

\* longest entity list drawn freely from the templates
MaxPlayers == 3

\* largest proper exclusion set drawn (the full set is always drawn too)
MaxExcluded == 1

\* entities beyond the cutoff rank in the long entity lists
MaxBeyond == 2

\* fixed-point units per 1.0 of a composite score
ZScale == 1000

\* fixed-point units per 1.0 of a standard deviation
StdScale == 16

---------------------------------------------------------------------------
(* Program constants *)

\* Math.min(200, ...)
ReplacementRank == 200

\* ... : -999
SentinelZ == 999

\* poolAmount = 1500
DefaultPool == 1500

---------------------------------------------------------------------------
(* Arithmetic helpers *)

\* the sequence with domain 1..n given as a function, element by element
AsSeq(f) == f \o <<>>

\* Body applied to the value v, which is computed once
With(v, Body(_)) == CHOOSE r \in {Body(x) : x \in {v}} : TRUE

Min(a, b) == IF a < b THEN a ELSE b

RECURSIVE GCD(_, _)
GCD(a, b) == IF b = 0 THEN a ELSE GCD(b, a % b)

\* the sum of s[lo..hi], halving the range
RECURSIVE SumRange(_, _, _)
SumRange(s, lo, hi) ==
    IF lo > hi THEN 0
    ELSE IF lo = hi THEN s[lo]
    ELSE LET mid == (lo + hi) \div 2
         IN  SumRange(s, lo, mid) + SumRange(s, mid + 1, hi)

SumSeq(s) == SumRange(s, 1, Len(s))

\* floor square root by bisection on lo..hi
RECURSIVE SqrtBetween(_, _, _)
SqrtBetween(x, lo, hi) ==
    IF lo >= hi THEN lo
    ELSE LET mid == (lo + hi + 1) \div 2
         IN  IF mid * mid <= x THEN SqrtBetween(x, mid, hi)
                               ELSE SqrtBetween(x, lo, mid - 1)

ISqrt(x) == SqrtBetween(x, 0, Min(x, 46340))

\* Math.sqrt in fixed point: StdScale * sqrt(x), rounded down
SqrtFix(x) ==
    IF x <= 2147483647 \div (StdScale * StdScale)
    THEN ISqrt(x * StdScale * StdScale)
    ELSE StdScale * ISqrt(x)

\* an exact fraction, kept as whole + num/den with 0 <= num < den in lowest
\* terms; Rat(n, d) is n / d for d > 0
Rat(n, d) ==
    With(GCD(n % d, d), LAMBDA g :
        [whole |-> n \div d, num |-> (n % d) \div g, den |-> d \div g])

Zero == [whole |-> 0, num |-> 0, den |-> 1]

RatOfInt(n) == [whole |-> n, num |-> 0, den |-> 1]

LCM(a, b) == (a \div GCD(a, b)) * b

RatAdd(a, b) ==
    With(LCM(a.den, b.den), LAMBDA l :
    With(Rat(a.num * (l \div a.den) + b.num * (l \div b.den), l), LAMBDA f :
        [whole |-> a.whole + b.whole + f.whole, num |-> f.num, den |-> f.den]))

RatLess(a, b) ==
    \/ a.whole < b.whole
    \/ /\ a.whole = b.whole
       /\ a.num * (LCM(a.den, b.den) \div a.den) < b.num * (LCM(a.den, b.den) \div b.den)

RatLeq(a, b) == a = b \/ RatLess(a, b)

RECURSIVE RatSumRange(_, _, _)
RatSumRange(s, lo, hi) ==
    IF lo > hi THEN Zero
    ELSE IF lo = hi THEN s[lo]
    ELSE With((lo + hi) \div 2, LAMBDA mid :
            RatAdd(RatSumRange(s, lo, mid), RatSumRange(s, mid + 1, hi)))

RatSum(s) == RatSumRange(s, 1, Len(s))

---------------------------------------------------------------------------
(* Adjustment maps: a function from <<PlayerId, stat>> to a delta *)

NoAdjustments == <<>>

AdjKey(pid, stat) == <<pid, stat>>

\* committedAdjustments[key] || 0
committedDelta(adjustments, pid, stat) ==
    IF AdjKey(pid, stat) \in DOMAIN adjustments
    THEN adjustments[AdjKey(pid, stat)]
    ELSE 0

---------------------------------------------------------------------------
(* Full recompute, shared steps *)

\* the filter testing the name alone
isValidMutNameOnly(p) == p.Name # ""

\* the filter testing the id alone
isValidMutIdOnly(p) == p.PlayerId # 0

\* .filter(p => p.Name && p.PlayerId)
isValid(p) == p.Name # "" /\ p.PlayerId # 0

\* a missing workload counted as one inning
ipOfMutUnit(p) == IF "IP" \in DOMAIN p THEN p.IP ELSE 1

\* p.IP || 0
ipOf(p) == IF "IP" \in DOMAIN p THEN p.IP ELSE 0

\* the committed stats _cERA .. _cSO of one raw entity
committedStats(p, adjustments) ==
    [cERA  |-> p.ERA  + committedDelta(adjustments, p.PlayerId, "ERA"),
     cWHIP |-> p.WHIP + committedDelta(adjustments, p.PlayerId, "WHIP"),
     cW    |-> p.W    + committedDelta(adjustments, p.PlayerId, "W"),
     cSV   |-> p.SV   + committedDelta(adjustments, p.PlayerId, "SV"),
     cSO   |-> p.SO   + committedDelta(adjustments, p.PlayerId, "SO")]

MapRecord(ps, field) == AsSeq([i \in 1..Len(ps) |-> ps[i][field]])

\* sums.ERA .. sums.SO and count; means[stat] is sums[stat] / count
rateSums(ps) ==
    [ERA  |-> SumSeq(MapRecord(ps, "cERA")),
     WHIP |-> SumSeq(MapRecord(ps, "cWHIP")),
     W    |-> SumSeq(MapRecord(ps, "cW")),
     SV   |-> SumSeq(MapRecord(ps, "cSV")),
     SO   |-> SumSeq(MapRecord(ps, "cSO"))]

\* the rate differences taken the other way round (entity minus mean)
impactValuesMutSign(era, whip, w, sv, so, ip, sums, count) ==
    [vERA  |-> (count * era - sums.ERA) * ip,
     vWHIP |-> (count * whip - sums.WHIP) * ip,
     vW    |-> w,
     vSV   |-> sv,
     vSO   |-> so]

\* the impact values _vERA .. _vSO from the five effective stats:
\*   valERA  = (means.ERA  - ERA)  * (IP / 9)     kept times 9 * count
\*   valWHIP = (means.WHIP - WHIP) * IP           kept times count
impactValues(era, whip, w, sv, so, ip, sums, count) ==
    [vERA  |-> (sums.ERA - count * era) * ip,
     vWHIP |-> (sums.WHIP - count * whip) * ip,
     vW    |-> w,
     vSV   |-> sv,
     vSO   |-> so]

\* the impact values of a unit workload, whatever the entity's IP
withImpactMutNoWorkload(p, sums, count) ==
    impactValues(p.cERA, p.cWHIP, p.cW, p.cSV, p.cSO, 1, sums, count) @@ p

withImpact(p, sums, count) ==
    impactValues(p.cERA, p.cWHIP, p.cW, p.cSV, p.cSO, p.IP, sums, count) @@ p

SquareSeq(s) == AsSeq([i \in 1..Len(s) |-> s[i] * s[i]])

\* iSums[k]; iMeans[k] is iSums[k] / count
valSums(ps) == [k \in {"vERA", "vWHIP", "vW", "vSV", "vSO"} |-> SumSeq(MapRecord(ps, k))]

\* variance = iSqSums[k] / count - mean * mean, kept times count * count
varianceOf(vs, count) ==
    With(SumSeq(vs), LAMBDA s : count * SumSeq(SquareSeq(vs)) - s * s)

\* iStds[k] = Math.sqrt(variance), kept times count
valStds(ps, count) ==
    [k \in {"vERA", "vWHIP", "vW", "vSV", "vSO"} |->
        SqrtFix(varianceOf(MapRecord(ps, k), count))]

\* means, iMeans and iStds of a population (the active entities)
populationStats(ps) ==
    With(rateSums(ps), LAMBDA sums :
    With(AsSeq([i \in 1..Len(ps) |-> withImpact(ps[i], sums, Len(ps))]),
         LAMBDA intermediate :
            [count  |-> Len(ps),
             means  |-> sums,
             iMeans |-> valSums(intermediate),
             iStds  |-> valStds(intermediate, Len(ps))]))

\* the term without its guard, a zero iStds[k] dividing like 1
zTermMutNoGuard(v, k, count, iSums, iStds) ==
    IF iStds[k] # 0
    THEN ((count * v[k] - iSums[k]) * (ZScale * StdScale)) \div iStds[k]
    ELSE (count * v[k] - iSums[k]) * ZScale

\* iStds[k] ? (v - iMeans[k]) / iStds[k] : 0
zTerm(v, k, count, iSums, iStds) ==
    IF iStds[k] # 0
    THEN ((count * v[k] - iSums[k]) * (ZScale * StdScale)) \div iStds[k]
    ELSE 0

\* zSum over the five value metrics
zSum(v, count, iSums, iStds) ==
    zTerm(v, "vERA", count, iSums, iStds)
  + zTerm(v, "vWHIP", count, iSums, iStds)
  + zTerm(v, "vW", count, iSums, iStds)
  + zTerm(v, "vSV", count, iSums, iStds)
  + zTerm(v, "vSO", count, iSums, iStds)

\* impact values and rawZ of the entities ps from the statistics st
scoreWith(ps, st) ==
    AsSeq([i \in 1..Len(ps) |->
        With(withImpact(ps[i], st.means, st.count), LAMBDA q :
            [rawZ |-> zSum(q, st.count, st.iMeans, st.iStds)] @@ q)])

\* Array.prototype.sort((a, b) => b.rawZ - a.rawZ): stable, descending.
\* sortedPosition: the entities with a greater rawZ come first, then the
\* entities with an equal rawZ that come earlier in the input
sortedPosition(zs, i) ==
    Cardinality({j \in 1..Len(zs) : zs[j] > zs[i] \/ (zs[j] = zs[i] /\ j < i)}) + 1

\* the list left in its input order
sortByRawZMutUnsorted(ps) == ps

sortByRawZ(ps) ==
    With(MapRecord(ps, "rawZ"), LAMBDA zs :
    With(AsSeq([i \in 1..Len(ps) |-> sortedPosition(zs, i)]), LAMBDA pos :
        AsSeq([k \in 1..Len(ps) |-> ps[CHOOSE i \in 1..Len(ps) : pos[i] = k]])))

\* valOverReplacement: p.rawZ - replacementLevelZ
evaluate(scored, replacementLevelZ) ==
    AsSeq([i \in 1..Len(scored) |->
        [valOverReplacement |-> scored[i].rawZ - replacementLevelZ] @@ scored[i]])

\* return { players: [], constants: {} }
EmptyResult == [players |-> <<>>, constants |-> [kind |-> "empty"]]

NullConstants == [kind |-> "null"]

\* the constants snapshot; a mean is (sum, count)
constantsOf(st, replacementLevelZ, positiveSum) ==
    [kind      |-> "full",
     count     |-> st.count,
     rateMeans |-> [ERA |-> st.means.ERA, WHIP |-> st.means.WHIP],
     valMeans  |-> st.iMeans,
     valStds   |-> st.iStds,
     replacementLevelZ |-> replacementLevelZ,
     positiveSum |-> positiveSum]

---------------------------------------------------------------------------
(* Full recompute with an exclusion set (part_001:192-401) *)

\* allPlayers: valid entities with committed stats, IP and the isExcluded flag
allPlayersOf(data, adjustments, excluded) ==
    With(SelectSeq(data, isValid), LAMBDA valid :
        AsSeq([i \in 1..Len(valid) |->
            [IP |-> ipOf(valid[i]), isExcluded |-> valid[i].PlayerId \in excluded]
            @@ committedStats(valid[i], adjustments) @@ valid[i]]))

isActive(p) == ~p.isExcluded

isExcludedPlayer(p) == p.isExcluded

\* the sentinel taken whatever the list
replacementLevelMutSentinel(sortedActiveOnly) == -(SentinelZ * ZScale)

\* a replacement level below the last active entity
replacementLevelMutBelowLast(sortedActiveOnly) ==
    IF Len(sortedActiveOnly) = 0 THEN -(SentinelZ * ZScale)
    ELSE sortedActiveOnly[Len(sortedActiveOnly)].rawZ - 1

\* sortedActiveOnly[replacementIdx] ? sortedActiveOnly[replacementIdx].rawZ : -999
replacementLevel(sortedActiveOnly) ==
    With(Min(ReplacementRank, Len(sortedActiveOnly) - 1), LAMBDA replacementIdx :
        IF replacementIdx + 1 \in 1..Len(sortedActiveOnly)
        THEN sortedActiveOnly[replacementIdx + 1].rawZ
        ELSE -(SentinelZ * ZScale))

\* positiveSum over every entity above the replacement level, excluded or not
positiveSumOfMutCountsExcluded(evaluatedPlayers) ==
    SumSeq(AsSeq([i \in 1..Len(evaluatedPlayers) |->
        IF evaluatedPlayers[i].valOverReplacement > 0
        THEN evaluatedPlayers[i].valOverReplacement ELSE 0]))

\* .filter(p => !p.isExcluded && p.valOverReplacement > 0).reduce(sum)
positiveSumOf(evaluatedPlayers) ==
    SumSeq(AsSeq([i \in 1..Len(evaluatedPlayers) |->
        IF ~evaluatedPlayers[i].isExcluded /\ evaluatedPlayers[i].valOverReplacement > 0
        THEN evaluatedPlayers[i].valOverReplacement ELSE 0]))

\* dollarValue without the isExcluded tests
dollarValueMutNoExclusion(p, positiveSum, pool) ==
    IF p.valOverReplacement > 0 /\ positiveSum > 0
    THEN Rat(p.valOverReplacement * pool, positiveSum)
    ELSE Zero

\* dollarValue of one evaluated entity
dollarValue(p, positiveSum, pool) ==
    IF ~p.isExcluded /\ p.valOverReplacement > 0 /\ positiveSum > 0
    THEN Rat(p.valOverReplacement * pool, positiveSum)
    ELSE Zero

\* the replacement index taken in the merged list instead of the active one
valueSortedMutNoFilter(allScored, st, pool) ==
    With(replacementLevel(allScored), LAMBDA replacementLevelZ :
    With(evaluate(allScored, replacementLevelZ), LAMBDA evaluatedPlayers :
    With(positiveSumOf(evaluatedPlayers), LAMBDA positiveSum :
        [players   |-> AsSeq([i \in 1..Len(evaluatedPlayers) |->
                          [Value |-> dollarValue(evaluatedPlayers[i], positiveSum, pool)]
                          @@ evaluatedPlayers[i]]),
         constants |-> constantsOf(st, replacementLevelZ, positiveSum)])))

\* steps 5 and on, from the merged sorted list
valueSorted(allScored, st, pool) ==
    With(replacementLevel(SelectSeq(allScored, isActive)), LAMBDA replacementLevelZ :
    With(evaluate(allScored, replacementLevelZ), LAMBDA evaluatedPlayers :
    With(positiveSumOf(evaluatedPlayers), LAMBDA positiveSum :
        [players   |-> AsSeq([i \in 1..Len(evaluatedPlayers) |->
                          [Value |-> dollarValue(evaluatedPlayers[i], positiveSum, pool)]
                          @@ evaluatedPlayers[i]]),
         constants |-> constantsOf(st, replacementLevelZ, positiveSum)])))

\* activePlayers.length === 0: every entity is returned with Value 0
noActiveResult(allPlayers) ==
    [players   |-> AsSeq([i \in 1..Len(allPlayers) |-> [Value |-> Zero] @@ allPlayers[i]]),
     constants |-> NullConstants]

calculateBaseValues(data, adjustments, pool, excluded) ==
    IF Len(data) = 0 THEN EmptyResult
    ELSE
    With(allPlayersOf(data, adjustments, excluded), LAMBDA allPlayers :
    IF Len(allPlayers) = 0 THEN EmptyResult
    ELSE
    With(SelectSeq(allPlayers, isActive), LAMBDA activePlayers :
    IF Len(activePlayers) = 0 THEN noActiveResult(allPlayers)
    ELSE
    With(populationStats(activePlayers), LAMBDA st :
    With(scoreWith(activePlayers, st)
           \o scoreWith(SelectSeq(allPlayers, isExcludedPlayer), st), LAMBDA merged :
    With(sortByRawZ(merged), LAMBDA allScored :
        valueSorted(allScored, st, pool))))))

---------------------------------------------------------------------------
(* Full recompute of the library (valuation.js:3-161): no exclusion set *)

\* players: valid entities with committed stats and IP
libPlayersOf(data, adjustments) ==
    With(SelectSeq(data, isValid), LAMBDA valid :
        AsSeq([i \in 1..Len(valid) |->
            [IP |-> ipOf(valid[i])]
            @@ committedStats(valid[i], adjustments) @@ valid[i]]))

\* scoredPlayers[Math.min(200, scoredPlayers.length - 1)].rawZ
libReplacementLevel(scoredPlayers) ==
    scoredPlayers[Min(ReplacementRank, Len(scoredPlayers) - 1) + 1].rawZ

\* .filter(p => p.valOverReplacement > 0).reduce(sum)
libPositiveSumOf(evaluatedPlayers) ==
    SumSeq(AsSeq([i \in 1..Len(evaluatedPlayers) |->
        IF evaluatedPlayers[i].valOverReplacement > 0
        THEN evaluatedPlayers[i].valOverReplacement ELSE 0]))

\* dollarValue of one evaluated entity (valuation.js:141-147)
libDollarValue(p, positiveSum, pool) ==
    IF positiveSum > 0
    THEN Rat(p.valOverReplacement * pool, positiveSum)
    ELSE Zero

libValueSorted(scoredPlayers, st, pool) ==
    With(libReplacementLevel(scoredPlayers), LAMBDA replacementLevelZ :
    With(evaluate(scoredPlayers, replacementLevelZ), LAMBDA evaluatedPlayers :
    With(libPositiveSumOf(evaluatedPlayers), LAMBDA positiveSum :
        [players   |-> AsSeq([i \in 1..Len(evaluatedPlayers) |->
                          [Value |-> libDollarValue(evaluatedPlayers[i], positiveSum, pool)]
                          @@ evaluatedPlayers[i]]),
         constants |-> constantsOf(st, replacementLevelZ, positiveSum)])))

calculateBaseValuesLib(data, adjustments, pool) ==
    IF Len(data) = 0 THEN EmptyResult
    ELSE
    With(libPlayersOf(data, adjustments), LAMBDA players :
    IF Len(players) = 0 THEN EmptyResult
    ELSE
    With(populationStats(players), LAMBDA st :
    With(scoreWith(players, st), LAMBDA scored :
    With(sortByRawZ(scored), LAMBDA scoredPlayers :
        libValueSorted(scoredPlayers, st, pool)))))

---------------------------------------------------------------------------
(* Incremental projection *)

\* the pending delta added on top of the committed one
processStatMutAddsBoth(pending, committed, pid, statName, rawVal) ==
    LET key          == AdjKey(pid, statName)
        isPending    == key \in DOMAIN pending
        committedVal == committedDelta(committed, pid, statName)
        currentDelta == IF isPending THEN pending[key] + committedVal ELSE committedVal
        isAdjusted   == currentDelta # 0
    IN  [val    |-> rawVal + currentDelta,
         status |-> IF isPending THEN "pending"
                    ELSE IF isAdjusted THEN "changed" ELSE "default"]

\* the status taken from the value of the delta alone
processStatMutStatusByValue(pending, committed, pid, statName, rawVal) ==
    LET key          == AdjKey(pid, statName)
        isPending    == key \in DOMAIN pending
        committedVal == committedDelta(committed, pid, statName)
        currentDelta == IF isPending THEN pending[key] ELSE committedVal
        isAdjusted   == currentDelta # 0
    IN  [val    |-> rawVal + currentDelta,
         status |-> IF isPending /\ isAdjusted THEN "pending"
                    ELSE IF isAdjusted THEN "changed" ELSE "default"]

\* a pending entry for a stat applied to every entity
processStatMutAnyPlayer(pending, committed, pid, statName, rawVal) ==
    LET keys         == {k \in DOMAIN pending : k[2] = statName}
        isPending    == keys # {}
        committedVal == committedDelta(committed, pid, statName)
        currentDelta == IF isPending THEN pending[CHOOSE k \in keys : TRUE]
                        ELSE committedVal
        isAdjusted   == currentDelta # 0
    IN  [val    |-> rawVal + currentDelta,
         status |-> IF isPending THEN "pending"
                    ELSE IF isAdjusted THEN "changed" ELSE "default"]

\* processStat(statName, rawVal): the effective value and the edit status
processStat(pending, committed, pid, statName, rawVal) ==
    LET key          == AdjKey(pid, statName)
        isPending    == key \in DOMAIN pending
        committedVal == committedDelta(committed, pid, statName)
        currentDelta == IF isPending THEN pending[key] ELSE committedVal
        isAdjusted   == currentDelta # 0
    IN  [val    |-> rawVal + currentDelta,
         status |-> IF isPending THEN "pending"
                    ELSE IF isAdjusted THEN "changed" ELSE "default"]

\* rateMeans && valMeans && valStds && positiveSum
canProject(constants) ==
    constants.kind = "full" /\ constants.positiveSum # 0

\* the record returned for one entity that is not short-circuited
projectPlayer(p, pending, committed, constants, pool) ==
    LET pid  == p.PlayerId
        era  == processStat(pending, committed, pid, "ERA", p.ERA)
        whip == processStat(pending, committed, pid, "WHIP", p.WHIP)
        w    == processStat(pending, committed, pid, "W", p.W)
        sv   == processStat(pending, committed, pid, "SV", p.SV)
        so   == processStat(pending, committed, pid, "SO", p.SO)
        projValue ==
            IF canProject(constants)
            THEN LET v == impactValues(era.val, whip.val, w.val, sv.val, so.val, p.IP,
                                       constants.rateMeans, constants.count)
                     valOverRep == zSum(v, constants.count, constants.valMeans,
                                        constants.valStds)
                                   - constants.replacementLevelZ
                 IN  IF valOverRep > 0
                     THEN Rat(valOverRep * pool, constants.positiveSum)
                     ELSE Zero
            ELSE p.Value
    IN  [ERA |-> era.val, WHIP |-> whip.val, W |-> w.val, SV |-> sv.val, SO |-> so.val,
         Value |-> projValue,
         status_ERA |-> era.status, status_WHIP |-> whip.status,
         status_W |-> w.status, status_SV |-> sv.status, status_SO |-> so.status]
        @@ p

\* the projection with the pool frozen at its default
applyDisplayAdjustmentsMutFrozenPool(basePlayers, pending, committed, constants, pool) ==
    IF constants.kind = "null" THEN basePlayers
    ELSE AsSeq([i \in 1..Len(basePlayers) |->
            IF basePlayers[i].isExcluded
            THEN [Value |-> Zero] @@ basePlayers[i]
            ELSE projectPlayer(basePlayers[i], pending, committed, constants, DefaultPool)])

\* the projection without the short-circuit of the excluded entities
applyDisplayAdjustmentsMutNoShortCircuit(basePlayers, pending, committed, constants, pool) ==
    IF constants.kind = "null" THEN basePlayers
    ELSE AsSeq([i \in 1..Len(basePlayers) |->
            projectPlayer(basePlayers[i], pending, committed, constants, pool)])

\* part_001:403-488: excluded entities short-circuit to Value 0
applyDisplayAdjustments(basePlayers, pending, committed, constants, pool) ==
    IF constants.kind = "null" THEN basePlayers
    ELSE AsSeq([i \in 1..Len(basePlayers) |->
            IF basePlayers[i].isExcluded
            THEN [Value |-> Zero] @@ basePlayers[i]
            ELSE projectPlayer(basePlayers[i], pending, committed, constants, pool)])

\* the projection without its test of the constants
applyDisplayAdjustmentsLibMutNoNullCheck(basePlayers, pending, committed, constants, pool) ==
    AsSeq([i \in 1..Len(basePlayers) |->
        projectPlayer(basePlayers[i], pending, committed, constants, pool)])

\* valuation.js:163-243: no short-circuit
applyDisplayAdjustmentsLib(basePlayers, pending, committed, constants, pool) ==
    IF constants.kind = "null" THEN basePlayers
    ELSE AsSeq([i \in 1..Len(basePlayers) |->
            projectPlayer(basePlayers[i], pending, committed, constants, pool)])

---------------------------------------------------------------------------
(* Inputs *)

\* stat lines of the repository's two test scripts (part_000:3-7 and
\* test_sorting.js:4-8), ERA in 0.5 and WHIP in 0.1, and two entities that
\* the filter drops
StatLines ==
    [AceHigh |-> [Name |-> "Ace High",    ERA |-> 6, WHIP |-> 10, W |-> 15, SV |-> 0, SO |-> 200, IP |-> 200],
     AceLow  |-> [Name |-> "Ace Low",     ERA |-> 6, WHIP |-> 10, W |-> 15, SV |-> 0, SO |-> 200, IP |-> 50],
     AvgJoe  |-> [Name |-> "Avg Joe",     ERA |-> 8, WHIP |-> 13, W |-> 10, SV |-> 0, SO |-> 100, IP |-> 150],
     Best    |-> [Name |-> "Best Player", ERA |-> 4, WHIP |-> 9,  W |-> 20, SV |-> 0, SO |-> 200, IP |-> 200],
     Good    |-> [Name |-> "Good Player", ERA |-> 7, WHIP |-> 11, W |-> 10, SV |-> 0, SO |-> 150, IP |-> 150],
     Avg     |-> [Name |-> "Avg Player",  ERA |-> 8, WHIP |-> 13, W |-> 5,  SV |-> 0, SO |-> 100, IP |-> 100],
     NoIp    |-> [Name |-> "No Workload", ERA |-> 4, WHIP |-> 9, W |-> 12, SV |-> 0, SO |-> 150],
     NoName  |-> [Name |-> "",            ERA |-> 2, WHIP |-> 8,  W |-> 25, SV |-> 0, SO |-> 250, IP |-> 200],
     NoId    |-> [Name |-> "No Id", PlayerId |-> 0,
                                          ERA |-> 2, WHIP |-> 8,  W |-> 25, SV |-> 0, SO |-> 250, IP |-> 200]]

\* the stat lines that the entity lists are drawn from freely
TemplateNames == {"AceHigh", "AceLow", "AvgJoe"}

\* the entity list with the given stat lines, PlayerId = position
Roster(names) ==
    AsSeq([i \in 1..Len(names) |-> StatLines[names[i]] @@ [PlayerId |-> i]])

RECURSIVE SeqsUpTo(_, _)
SeqsUpTo(S, n) ==
    IF n = 0 THEN {<<>>}
    ELSE LET shorter == SeqsUpTo(S, n - 1)
         IN  shorter \cup {Append(q, x) : q \in {r \in shorter : Len(r) = n - 1}, x \in S}

ShortRosters == {Roster(names) : names \in SeqsUpTo(TemplateNames, MaxPlayers) \ {<<>>}}

\* mockData of test_sorting.js
SortingRosters == {Roster(<<"Best", "Good", "Avg">>)}

\* entity lists holding an entity without workload (IP absent)
NoWorkloadRosters == {Roster(<<"NoIp", "AceHigh", "AvgJoe">>), Roster(<<"AvgJoe", "NoIp">>)}

\* the workload pair of part_000 next to an entity better than both
WorkloadRosters == {Roster(<<"AceHigh", "AceLow", "Best">>)}

\* the empty entity list
EmptyRosters == {Roster(<<>>)}

\* entity lists holding an entity without a name or without an id
InvalidRosters ==
    {Roster(names) : names \in {<<"NoName">>, <<"NoId", "NoName">>,
                                <<"NoName", "Best", "Good">>, <<"Best", "NoId", "Avg">>}}

\* long entity lists around the cutoff rank: stars, then bench, then scrubs,
\* equal in everything but W (and SV for the stars)
BenchLine(w, sv) ==
    [Name |-> "Bench", ERA |-> 8, WHIP |-> 13, W |-> w, SV |-> sv, SO |-> 100, IP |-> 1]

LongRoster(stars, bench, scrubs) ==
    AsSeq([i \in 1..(stars + bench + scrubs) |->
        [PlayerId |-> i] @@
        (IF i <= stars THEN BenchLine(12, 1)
         ELSE IF i <= stars + bench THEN BenchLine(10, 0)
         ELSE BenchLine(8, 0))])

LongRosters ==
    {LongRoster(1, bench, scrubs) :
        bench \in (ReplacementRank - 1)..(ReplacementRank + 1), scrubs \in 0..MaxBeyond}

isLong(data) == Len(data) >= ReplacementRank

validIds(data) == {data[i].PlayerId : i \in {j \in 1..Len(data) : isValid(data[j])}}

ExclusionChoices(data) ==
    IF isLong(data)
    THEN {{}, {1}, {Len(data)}}
    ELSE {X \in SUBSET validIds(data) : Cardinality(X) <= MaxExcluded} \cup {validIds(data)}

\* <<committedAdjustments, pendingAdjustments>>
AdjustmentChoices(data) ==
    {<<NoAdjustments, NoAdjustments>>,
     <<(AdjKey(1, "ERA") :> 2) @@ (AdjKey(2, "W") :> 1), (AdjKey(1, "ERA") :> -1)>>}
    \cup (IF isLong(data) THEN {}
          ELSE {<<(AdjKey(1, "W") :> 5) @@ (AdjKey(2, "SO") :> 0), (AdjKey(2, "SV") :> 3)>>,
                <<(AdjKey(1, "W") :> 5), (AdjKey(1, "W") :> 0)>>})

PoolChoices == {DefaultPool}

NotRun == [players |-> <<>>, constants |-> [kind |-> "unset"]]

\* if (loading || !rawData.length) return []: neither players nor constants
NoBaseData == [players |-> <<>>, constants |-> [kind |-> "undefined"]]

\* rawData.filter(p => !excludedPlayerIds.has(p.PlayerId))
withoutExcluded(data, excluded) ==
    SelectSeq(data, LAMBDA p : p.PlayerId \notin excluded)

\* the baseData memo of App.jsx: the excluded entities are filtered out
\* before the library's recompute
baseDataMemo(data, committed, isLoading, pool, excluded) ==
    IF isLoading \/ Len(data) = 0 THEN NoBaseData
    ELSE calculateBaseValuesLib(withoutExcluded(data, excluded), committed, pool)

\* the processedData memo of App.jsx
processedDataMemo(base, pending, committed, pool) ==
    IF base = NoBaseData THEN <<>>
    ELSE applyDisplayAdjustmentsLib(base.players, pending, committed, base.constants, pool)

---------------------------------------------------------------------------
(* State machine: the inputs are drawn, then each function is applied *)

Init ==
    /\ rawData \in EmptyRosters \cup ShortRosters \cup SortingRosters \cup WorkloadRosters
                     \cup NoWorkloadRosters
                     \cup InvalidRosters \cup LongRosters
    /\ \E adj \in AdjustmentChoices(rawData) :
          /\ committedAdjustments = adj[1]
          /\ pendingAdjustments = adj[2]
    /\ poolAmount \in PoolChoices
    /\ excludedPlayerIds \in ExclusionChoices(rawData)
    /\ result = NotRun
    /\ display = <<>>
    /\ libResult = NotRun
    /\ libDisplay = <<>>
    /\ baseData = NotRun
    /\ processedData = <<>>
    /\ pc = "input"
    /\ loading = FALSE
    /\ isSaving = FALSE
    /\ savingPending = NoAdjustments
    /\ edits = 0
    /\ saves = 0
    /\ savingValues = <<>>
    /\ adjustmentsTable = <<>>
    /\ player_values = <<>>

inputs == <<rawData, committedAdjustments, pendingAdjustments, poolAmount, excludedPlayerIds,
            loading, isSaving, savingPending, edits, saves, savingValues, adjustmentsTable,
            player_values>>

\* calculateBaseValues(rawData, committedAdjustments, poolAmount, excludedPlayerIds)
Recompute ==
    /\ pc = "input"
    /\ result' = calculateBaseValues(rawData, committedAdjustments, poolAmount,
                                       excludedPlayerIds)
    /\ pc' = "base"
    /\ UNCHANGED <<inputs, display, libResult, libDisplay, baseData, processedData>>

\* applyDisplayAdjustments(result.players, pending, committed, result.constants, pool)
Project ==
    /\ pc = "base"
    /\ display' = applyDisplayAdjustments(result.players, pendingAdjustments,
                            committedAdjustments, result.constants, poolAmount)
    /\ pc' = "projected"
    /\ UNCHANGED <<inputs, result, libResult, libDisplay, baseData, processedData>>

\* calculateBaseValues(rawData, committedAdjustments, poolAmount) of valuation.js
RecomputeLib ==
    /\ pc = "projected"
    /\ libResult' = calculateBaseValuesLib(rawData, committedAdjustments, poolAmount)
    /\ pc' = "libBase"
    /\ UNCHANGED <<inputs, result, display, libDisplay, baseData, processedData>>

\* applyDisplayAdjustments of valuation.js on the library's own result
ProjectLib ==
    /\ pc = "libBase"
    /\ libDisplay' = applyDisplayAdjustmentsLib(libResult.players, pendingAdjustments,
                            committedAdjustments, libResult.constants, poolAmount)
    /\ pc' = "libProjected"
    /\ UNCHANGED <<inputs, result, display, libResult, baseData, processedData>>

\* applyDisplayAdjustments of valuation.js called with constants null
ProjectLibNull ==
    /\ pc = "libBase"
    /\ libDisplay' = applyDisplayAdjustmentsLib(libResult.players, pendingAdjustments,
                            committedAdjustments, NullConstants, poolAmount)
    /\ pc' = "libNull"
    /\ UNCHANGED <<inputs, result, display, libResult, baseData, processedData>>

\* the baseData memo of App.jsx, the data being loaded
BaseDataMemo ==
    /\ pc = "libProjected"
    /\ baseData' = baseDataMemo(rawData, committedAdjustments, loading, poolAmount,
                                excludedPlayerIds)
    /\ pc' = "appBase"
    /\ UNCHANGED <<inputs, result, display, libResult, libDisplay, processedData>>

\* the processedData memo of App.jsx
ProcessedDataMemo ==
    /\ pc = "appBase"
    /\ processedData' = processedDataMemo(baseData, pendingAdjustments,
                                          committedAdjustments, poolAmount)
    /\ pc' = "done"
    /\ UNCHANGED <<inputs, result, display, libResult, libDisplay, baseData>>

Next ==
    \/ Recompute
    \/ Project
    \/ RecomputeLib
    \/ ProjectLib
    \/ ProjectLibNull
    \/ BaseDataMemo
    \/ ProcessedDataMemo

Spec == Init /\ [][Next]_vars

---------------------------------------------------------------------------
(* The store (part_002): the tables adjustments and player_values, each a
   sequence of rows in insertion order *)

\* the index of the row of the table with the key of row, 0 if none
rowIndex(table, playerId, stat) ==
    IF \E i \in 1..Len(table) : table[i].playerId = playerId /\ table[i].stat = stat
    THEN CHOOSE i \in 1..Len(table) : table[i].playerId = playerId /\ table[i].stat = stat
    ELSE 0

\* a plain INSERT, without the ON CONFLICT clause and the UNIQUE constraint
upsertAdjustmentMutInsert(table, adj) ==
    Append(table, [id |-> Len(table) + 1, playerId |-> adj.playerId,
                   stat |-> adj.stat, delta |-> adj.delta])

\* INSERT INTO adjustments ... ON CONFLICT(playerId, stat) DO UPDATE SET
\* delta = excluded.delta
upsertAdjustment(table, adj) ==
    With(rowIndex(table, adj.playerId, adj.stat), LAMBDA i :
        IF i = 0
        THEN Append(table, [id |-> Len(table) + 1, playerId |-> adj.playerId,
                            stat |-> adj.stat, delta |-> adj.delta])
        ELSE [table EXCEPT ![i].delta = adj.delta])

\* adjustments.forEach(adj => stmt.run(...)): the upserts in array order
RECURSIVE batchUpsert(_, _)
batchUpsert(table, adjs) ==
    IF Len(adjs) = 0 THEN table
    ELSE batchUpsert(upsertAdjustment(table, Head(adjs)), Tail(adjs))

\* values.forEach(v => stmt.run(...)) with INSERT INTO player_values ... ON
\* CONFLICT(playerId) DO UPDATE SET value = excluded.value.  The table after
\* the upserts in array order: a row that is named takes the value of its
\* last upsert, and the playerIds that are new are appended in the order
\* of their first upsert
lastValueFor(values, playerId) ==
    values[CHOOSE i \in 1..Len(values) :
              /\ values[i].playerId = playerId
              /\ \A k \in (i + 1)..Len(values) : values[k].playerId # playerId].value

batchUpsertValues(table, values) ==
    With({values[i].playerId : i \in 1..Len(values)}, LAMBDA named :
    With({table[i].playerId : i \in 1..Len(table)}, LAMBDA stored :
        AsSeq([i \in 1..Len(table) |->
            IF table[i].playerId \in named
            THEN [table[i] EXCEPT !.value = lastValueFor(values, table[i].playerId)]
            ELSE table[i]])
        \o
        With(SelectSeq(AsSeq([i \in 1..Len(values) |-> i]), LAMBDA i :
                /\ values[i].playerId \notin stored
                /\ \A k \in 1..(i - 1) : values[k].playerId # values[i].playerId),
             LAMBDA firsts :
                AsSeq([n \in 1..Len(firsts) |->
                    [playerId |-> values[firsts[n]].playerId,
                     value    |-> lastValueFor(values, values[firsts[n]].playerId)]]))))

\* the rows read by SELECT playerId, stat, delta FROM adjustments, turned
\* into the map of the page: adjMap[playerId-stat] = delta, row after row
RECURSIVE adjMapOf(_)
adjMapOf(rows) ==
    IF Len(rows) = 0 THEN NoAdjustments
    ELSE With(rows[Len(rows)], LAMBDA adj :
            (AdjKey(adj.playerId, adj.stat) :> adj.delta)
                @@ adjMapOf(SubSeq(rows, 1, Len(rows) - 1)))

\* Object.entries(pendingAdjustments).map(([key, delta]) => ({ playerId,
\* stat, delta })): one update for each key of the map (a map holds a key
\* once, so the order of the entries does not change the rows stored)
RECURSIVE updatesOf(_)
updatesOf(pending) ==
    IF DOMAIN pending = {} THEN <<>>
    ELSE LET key == CHOOSE k \in DOMAIN pending : TRUE
         IN  <<[playerId |-> key[1], stat |-> key[2], delta |-> pending[key]]>>
               \o updatesOf([x \in DOMAIN pending \ {key} |-> pending[x]])

\* processedData.map(p => ({ playerId: p.PlayerId, value: p.Value }))
valuesToSave(processed) ==
    AsSeq([i \in 1..Len(processed) |->
        [playerId |-> processed[i].PlayerId, value |-> processed[i].Value]])

---------------------------------------------------------------------------
(* State machine of the page (App.jsx): the handlers of App, each followed
   by the render that re-evaluates the two memos *)

MaxEdits == 2

\* the entity lists and the stored adjustments that the page may fetch
FetchedRosters == {Roster(<<"Best", "Good", "Avg">>)}

\* the adjustmentsTable that the store holds when the page is opened
FetchedAdjustments == {AdjKey(1, "W") :> 5}

\* the arguments StatCell passes to onStatChange: +step and -step
EditedStats == {"W"}

stepOf(stat) == IF stat = "SO" THEN 5 ELSE 1

AmountChoices == {DefaultPool, 2 * DefaultPool}

\* the rows whose steppers are clicked
EditedRows == {1, 2}

\* the rows whose exclusion checkbox is clicked
ExcludedRows == {3}

\* the state after construction (useState initial values), before any effect
InitPage ==
    /\ rawData = <<>>
    /\ committedAdjustments = NoAdjustments
    /\ pendingAdjustments = NoAdjustments
    /\ poolAmount = DefaultPool
    /\ excludedPlayerIds = {}
    /\ loading = TRUE
    /\ isSaving = FALSE
    /\ savingPending = NoAdjustments
    /\ edits = 0
    /\ saves = 0
    /\ savingValues = <<>>
    /\ player_values = <<>>
    /\ result = NotRun
    /\ display = <<>>
    /\ libResult = NotRun
    /\ libDisplay = <<>>
    /\ baseData = NoBaseData
    /\ processedData = <<>>
    /\ pc = "app"

\* the page constructed, the store holding the adjustments of earlier sessions
InitApp ==
    /\ InitPage
    /\ \E stored \in FetchedAdjustments : adjustmentsTable = batchUpsert(<<>>, updatesOf(stored))

engine == <<result, display, libResult, libDisplay, pc>>

\* most saveChanges calls of one run of the page
MaxSaves == 1

\* the dependency lists of the two useMemo calls
baseDataDeps == <<rawData, committedAdjustments, loading, poolAmount, excludedPlayerIds>>

processedDataDeps == <<baseData, pendingAdjustments, committedAdjustments, poolAmount>>

\* the render after a state update: a memo is evaluated again when one of
\* its dependencies has changed, and keeps its value otherwise
Render ==
    /\ baseData' = IF baseDataDeps' = baseDataDeps
                   THEN baseData
                   ELSE baseDataMemo(rawData', committedAdjustments', loading',
                                     poolAmount', excludedPlayerIds')
    /\ processedData' = IF processedDataDeps' = processedDataDeps
                        THEN processedData
                        ELSE processedDataMemo(baseData', pendingAdjustments',
                                               committedAdjustments', poolAmount')

\* prev => ({ ...prev, ...more })
merged(prev, more) == more @@ prev

\* fetchData, both requests answered, the file holding one of the rosters
fetchDataOf(rosters) ==
    /\ pc = "app"
    /\ loading
    /\ rawData' \in rosters
    /\ committedAdjustments' = adjMapOf(adjustmentsTable)
    /\ loading' = FALSE
    /\ UNCHANGED <<pendingAdjustments, poolAmount, excludedPlayerIds, isSaving,
                   savingPending, edits, engine, saves, savingValues, adjustmentsTable,
                   player_values>>
    /\ Render

FetchData == fetchDataOf(FetchedRosters)

\* fetchData, a request failed
FetchFailed ==
    /\ pc = "app"
    /\ loading
    /\ loading' = FALSE
    /\ UNCHANGED <<rawData, committedAdjustments, pendingAdjustments, poolAmount,
                   excludedPlayerIds, isSaving, savingPending, edits, engine, saves, savingValues, adjustmentsTable, player_values>>
    /\ Render

\* an edit written to the committed map instead of the pending one
HandleStatChangeMutCommits(playerId, stat, deltaChange) ==
    /\ pc = "app"
    /\ edits < MaxEdits
    /\ edits' = edits + 1
    /\ committedAdjustments' =
          merged(committedAdjustments, AdjKey(playerId, stat) :>
              (committedDelta(committedAdjustments, playerId, stat) + deltaChange))
    /\ UNCHANGED <<rawData, pendingAdjustments, poolAmount, excludedPlayerIds, loading,
                   isSaving, savingPending, engine, saves, savingValues, adjustmentsTable, player_values>>
    /\ Render

\* an edit that starts from the committed delta whatever the pending entry
HandleStatChangeMutFromCommitted(playerId, stat, deltaChange) ==
    /\ pc = "app"
    /\ edits < MaxEdits
    /\ edits' = edits + 1
    /\ pendingAdjustments' =
          merged(pendingAdjustments, AdjKey(playerId, stat) :>
              (committedDelta(committedAdjustments, playerId, stat) + deltaChange))
    /\ UNCHANGED <<rawData, committedAdjustments, poolAmount, excludedPlayerIds, loading,
                   isSaving, savingPending, engine, saves, savingValues, adjustmentsTable,
                   player_values>>
    /\ Render

\* Math.round(x * 100) / 100 of a whole number x of units: Math.round(y) is
\* the floor of y + 1/2
roundToCents(x) == ((2 * (x * 100) + 1) \div 2) \div 100

\* handleStatChange
HandleStatChange(playerId, stat, deltaChange) ==
    /\ pc = "app"
    /\ edits < MaxEdits
    /\ edits' = edits + 1
    /\ LET key == AdjKey(playerId, stat)
           committedValue == committedDelta(committedAdjustments, playerId, stat)
           currentValue == IF key \in DOMAIN pendingAdjustments
                           THEN pendingAdjustments[key]
                           ELSE committedValue
           newDelta == roundToCents(currentValue + deltaChange)
       IN  pendingAdjustments' = merged(pendingAdjustments, key :> newDelta)
    /\ UNCHANGED <<rawData, committedAdjustments, poolAmount, excludedPlayerIds, loading,
                   isSaving, savingPending, engine, saves, savingValues, adjustmentsTable, player_values>>
    /\ Render

\* Object.keys(pendingAdjustments).length > 0
hasPendingChanges == DOMAIN pendingAdjustments # {}

\* saveChanges up to its first await; the button is disabled while
\* !hasPendingChanges || isSaving.  The call keeps the pendingAdjustments and
\* the processedData of the render it was made in
SaveChanges ==
    /\ pc = "app"
    /\ hasPendingChanges
    /\ ~isSaving
    /\ saves < MaxSaves
    /\ saves' = saves + 1
    /\ isSaving' = TRUE
    /\ savingPending' = pendingAdjustments
    /\ savingValues' = valuesToSave(processedData)
    /\ UNCHANGED <<rawData, committedAdjustments, pendingAdjustments, poolAmount,
                   excludedPlayerIds, loading, edits, engine, adjustmentsTable, player_values>>
    /\ Render

\* setCommittedAdjustments(prev => ({ ...prev, ...pendingAdjustments }));
\* setPendingAdjustments({})
mergeAndClear ==
    /\ committedAdjustments' = merged(committedAdjustments, savingPending)
    /\ pendingAdjustments' = NoAdjustments

\* finally { setIsSaving(false) }, the call being over
saveReturns ==
    /\ isSaving' = FALSE
    /\ savingPending' = NoAdjustments
    /\ savingValues' = <<>>

\* if (processedData.length > 0) POST /api/values, answered with success
valuesStored ==
    player_values' = IF Len(savingValues) > 0
                     THEN batchUpsertValues(player_values, savingValues)
                     ELSE player_values

\* saveChanges, both requests stored and answered with success
SaveSucceeded ==
    /\ pc = "app"
    /\ isSaving
    /\ adjustmentsTable' = batchUpsert(adjustmentsTable, updatesOf(savingPending))
    /\ valuesStored
    /\ mergeAndClear
    /\ saveReturns
    /\ UNCHANGED <<rawData, poolAmount, excludedPlayerIds, loading, edits, engine, saves>>
    /\ Render

\* saveChanges, the batch-adjustments request rejected (no answer): catch,
\* then finally
SaveFailed ==
    /\ pc = "app"
    /\ isSaving
    /\ saveReturns
    /\ UNCHANGED <<rawData, committedAdjustments, pendingAdjustments, poolAmount,
                   excludedPlayerIds, loading, edits, engine, saves, adjustmentsTable, player_values>>
    /\ Render

\* saveChanges, the batch-adjustments request answered with status 500 (or
\* 400) by the store, which kept nothing: fetch resolves, the answer is not
\* looked at and the call goes on as after a success
SaveAnsweredError ==
    /\ pc = "app"
    /\ isSaving
    /\ valuesStored
    /\ mergeAndClear
    /\ saveReturns
    /\ UNCHANGED <<rawData, poolAmount, excludedPlayerIds, loading, edits, engine, saves,
                   adjustmentsTable>>
    /\ Render

\* toggleExclusion
ToggleExclusion(playerId) ==
    /\ pc = "app"
    /\ excludedPlayerIds' = IF playerId \in excludedPlayerIds
                            THEN excludedPlayerIds \ {playerId}
                            ELSE excludedPlayerIds \cup {playerId}
    /\ UNCHANGED <<rawData, committedAdjustments, pendingAdjustments, poolAmount, loading,
                   isSaving, savingPending, edits, engine, saves, savingValues, adjustmentsTable, player_values>>
    /\ Render

\* setPoolAmount(Number(e.target.value))
SetPoolAmount(amount) ==
    /\ pc = "app"
    /\ amount # poolAmount
    /\ poolAmount' = amount
    /\ UNCHANGED <<rawData, committedAdjustments, pendingAdjustments, excludedPlayerIds,
                   loading, isSaving, savingPending, edits, engine, saves, savingValues, adjustmentsTable, player_values>>
    /\ Render

\* the ids of the rows of the table (data: processedData): an excluded
\* entity has no row
rowIds == {processedData[i].PlayerId : i \in 1..Len(processedData)}

NextApp ==
    \/ FetchData
    \/ FetchFailed
    \/ \E playerId \in rowIds \cap EditedRows, stat \in EditedStats, sign \in {-1, 1} :
          HandleStatChange(playerId, stat, sign * stepOf(stat))
    \/ SaveChanges
    \/ SaveSucceeded
    \/ SaveFailed
    \/ SaveAnsweredError
    \/ \E playerId \in rowIds \cap ExcludedRows : ToggleExclusion(playerId)
    \/ \E amount \in AmountChoices : SetPoolAmount(amount)

SpecApp == InitApp /\ [][NextApp]_vars

---------------------------------------------------------------------------
(* The page opened on a file of more entities than the replacement rank:
   the same handlers, the exclusions left as they are *)

FetchedLongRosters == {LongRoster(1, ReplacementRank, 1)}

FetchLongData == fetchDataOf(FetchedLongRosters)

NextAppLong ==
    \/ FetchLongData
    \/ \E playerId \in rowIds \cap EditedRows, stat \in EditedStats, sign \in {-1, 1} :
          HandleStatChange(playerId, stat, sign * stepOf(stat))
    \/ SaveChanges
    \/ SaveSucceeded
    \/ \E amount \in AmountChoices : SetPoolAmount(amount)

SpecAppLong == InitApp /\ [][NextAppLong]_vars

---------------------------------------------------------------------------
(* The adjustment store on its own (part_002): the two POST handlers of the
   adjustments table, called with any bodies; the page is left as opened *)

\* longest array posted to /api/batch-adjustments
MaxBatch == 2

\* the keys the requests name, and the deltas they carry
StorePlayerIds == {1, 2}

StoreStats == {"W"}

StoreDeltas == {1, 2}

\* the keys and deltas of the rows stored before the first request
StoredPlayerIds == {1, 3, 4}

StoredDeltas == {5, 7}

StoredMaps ==
    UNION {[keys -> StoredDeltas] : keys \in SUBSET (StoredPlayerIds \X StoreStats)}

StoreKeys == (StorePlayerIds \cup StoredPlayerIds) \X StoreStats

\* the bodies { playerId, stat, delta } of POST /api/adjustments
StoreAdjustments ==
    {[playerId |-> playerId, stat |-> stat, delta |-> delta] :
        playerId \in StorePlayerIds, stat \in StoreStats, delta \in StoreDeltas}

\* the bodies of POST /api/batch-adjustments: an array of adjustments, or
\* something that is not an array
StoreBatches ==
    {[isArray |-> TRUE, items |-> items] :
        items \in UNION {[1..n -> StoreAdjustments] : n \in 0..MaxBatch}}
    \cup {[isArray |-> FALSE, items |-> <<>>]}

\* the tables the store can hold when the first request arrives
InitStore ==
    /\ InitPage
    /\ \E stored \in StoredMaps : adjustmentsTable = batchUpsert(<<>>, updatesOf(stored))

pageState == <<rawData, committedAdjustments, pendingAdjustments, poolAmount,
               excludedPlayerIds, result, display, libResult, libDisplay,
               baseData, processedData, pc, loading, isSaving, savingPending,
               edits, saves, savingValues, player_values>>

\* app.post('/api/adjustments')
PostAdjustment(body) ==
    /\ adjustmentsTable' = upsertAdjustment(adjustmentsTable, body)
    /\ UNCHANGED pageState

\* app.post('/api/batch-adjustments'): 400 and no statement run when the
\* body is not an array, else the upserts of the array in one transaction
PostBatchAdjustments(body) ==
    /\ adjustmentsTable' = IF ~body.isArray
                           THEN adjustmentsTable
                           ELSE batchUpsert(adjustmentsTable, body.items)
    /\ UNCHANGED pageState

NextStore ==
    \/ \E body \in StoreAdjustments : PostAdjustment(body)
    \/ \E body \in StoreBatches : PostBatchAdjustments(body)

SpecStore == InitStore /\ [][NextStore]_vars

---------------------------------------------------------------------------
(* Properties *)

\* the state right after each step; a step leaves the earlier results unchanged
baseRan == pc = "base"

projectionRan == pc = "projected"

libRan == pc = "libBase"

libProjectionRan == pc = "libProjected"

libNullRan == pc = "libNull"

appRan == pc = "appBase"

appProjectionRan == pc = "done"

hasSnapshot(res) == res.constants.kind = "full"

ValuesOf(players) == MapRecord(players, "Value")

activeOf(players) == SelectSeq(players, isActive)

\* C1 (library side).  Pool conservation for valuation.js: whenever
\* positiveSum > 0, the Values of all entities (all are active) sum to
\* poolAmount.
C1_PoolConservationLib ==
    (libRan /\ hasSnapshot(libResult) /\ libResult.constants.positiveSum > 0)
        => RatSum(ValuesOf(libResult.players)) = RatOfInt(poolAmount)

\* C1 (exclusion-aware side).  Pool conservation for part_001: whenever
\* positiveSum > 0, the Values of the active entities sum to poolAmount.
C1_PoolConservationExcl ==
    (baseRan /\ hasSnapshot(result) /\ result.constants.positiveSum > 0)
        => RatSum(ValuesOf(activeOf(result.players))) = RatOfInt(poolAmount)

\* C1.  Pool conservation: for every full recompute whose positiveSum is > 0,
\* the sum of Value over the active entities of the output equals poolAmount,
\* for any number of active entities (below, at and above the cutoff rank).
C1_PoolConservation == C1_PoolConservationExcl /\ C1_PoolConservationLib

\* C2 (library side).  In the output of valuation.js every entity with
\* valOverReplacement <= 0 has Value 0 and no Value is negative.
C2_NoNegativeValueLib ==
    (libRan /\ hasSnapshot(libResult)) =>
        \A i \in 1..Len(libResult.players) :
            /\ libResult.players[i].valOverReplacement <= 0
                  => libResult.players[i].Value = Zero
            /\ poolAmount >= 0 => RatLeq(Zero, libResult.players[i].Value)

\* C2 (exclusion-aware side).  The same for part_001.
C2_NoNegativeValueExcl ==
    (baseRan /\ hasSnapshot(result)) =>
        \A i \in 1..Len(result.players) :
            /\ result.players[i].valOverReplacement <= 0
                  => result.players[i].Value = Zero
            /\ poolAmount >= 0 => RatLeq(Zero, result.players[i].Value)

\* C2.  In the output of a full recompute every entity whose
\* valueAboveReplacement is <= 0 has Value exactly 0, so with poolAmount >= 0
\* no entity has a negative Value.
C2_NoNegativeValue == C2_NoNegativeValueExcl /\ C2_NoNegativeValueLib

scoreAndValue(players) ==
    AsSeq([i \in 1..Len(players) |->
        [PlayerId |-> players[i].PlayerId,
         rawZ     |-> players[i].rawZ,
         Value    |-> players[i].Value]])

scoreOf(players) ==
    AsSeq([i \in 1..Len(players) |->
        [PlayerId |-> players[i].PlayerId, rawZ |-> players[i].rawZ]])

\* C4.  Excluded entities do not influence the statistics: when the
\* exclusion set leaves an active entity, the recompute with the exclusion
\* set returns the constants of the recompute on the list without the
\* excluded entities and with no exclusions, and every active entity has the
\* same composite score and the same Value in both; the library run on the
\* filtered list (the baseData memo) has the same constants and scores too.
C4_ExcludedDoNotInfluence ==
    /\ (baseRan /\ hasSnapshot(result)) =>
          With(calculateBaseValues(withoutExcluded(rawData, excludedPlayerIds),
                                   committedAdjustments, poolAmount, {}),
               LAMBDA alone :
                  /\ alone.constants = result.constants
                  /\ scoreAndValue(alone.players)
                        = scoreAndValue(activeOf(result.players)))
    /\ (appRan /\ hasSnapshot(result)) =>
          /\ baseData.constants = result.constants
          /\ scoreOf(baseData.players) = scoreOf(activeOf(result.players))

\* a recompute whose exclusion set changes the constants: excluding nobody
\* gives other constants
C4_Witness ==
    /\ appRan
    /\ hasSnapshot(result)
    /\ excludedPlayerIds \cap validIds(rawData) # {}
    /\ result.constants.positiveSum > 0
    /\ calculateBaseValues(rawData, committedAdjustments, poolAmount, {}).constants
          # result.constants

\* the order statistic: r is the score at zero-based index idx of zs taken
\* in descending order
isScoreAtIndex(zs, idx, r) ==
    /\ \E i \in 1..Len(zs) : zs[i] = r
    /\ Cardinality({i \in 1..Len(zs) : zs[i] > r}) <= idx
    /\ Cardinality({i \in 1..Len(zs) : zs[i] >= r}) >= idx + 1

\* C6.  Replacement cutoff: with n >= 1 active entities the replacement
\* score is the composite score at zero-based index min(200, n - 1) of the
\* active entities in descending score order, whoever is excluded.
C6_ReplacementCutoff ==
    /\ (baseRan /\ hasSnapshot(result)) =>
          With(MapRecord(activeOf(result.players), "rawZ"), LAMBDA zs :
              isScoreAtIndex(zs, Min(ReplacementRank, Len(zs) - 1),
                             result.constants.replacementLevelZ))
    /\ (libRan /\ hasSnapshot(libResult)) =>
          With(MapRecord(libResult.players, "rawZ"), LAMBDA zs :
              isScoreAtIndex(zs, Min(ReplacementRank, Len(zs) - 1),
                             libResult.constants.replacementLevelZ))

\* more than 201 active entities of differing scores, an excluded entity
\* ranked above the cutoff, and a replacement score that is neither the
\* highest nor the lowest active score
C6_Witness ==
    /\ libRan
    /\ hasSnapshot(result)
    /\ Len(activeOf(result.players)) > ReplacementRank + 1
    /\ \E i \in 1..Len(result.players) :
          /\ result.players[i].isExcluded
          /\ result.players[i].rawZ > result.constants.replacementLevelZ
    /\ \E i, j \in 1..Len(result.players) :
          /\ ~result.players[i].isExcluded
          /\ ~result.players[j].isExcluded
          /\ result.players[i].rawZ > result.constants.replacementLevelZ
          /\ result.players[j].rawZ < result.constants.replacementLevelZ

\* the recompute of the same inputs with nobody excluded
initial == calculateBaseValues(rawData, committedAdjustments, poolAmount, {})

indexOf(players, pid) ==
    CHOOSE i \in 0..Len(players) :
        IF \E k \in 1..Len(players) : players[k].PlayerId = pid
        THEN i > 0 /\ players[i].PlayerId = pid
             /\ \A k \in 1..(i - 1) : players[k].PlayerId # pid
        ELSE i = 0

placedByScore(players, pid) ==
    /\ Cardinality({k \in 1..Len(players) : players[k].PlayerId = pid}) = 1
    /\ With(indexOf(players, pid), LAMBDA i :
          /\ players[i].Value = Zero
          /\ \A k \in 1..(i - 1) : players[k].rawZ >= players[i].rawZ)

noEdits == committedAdjustments = NoAdjustments /\ pendingAdjustments = NoAdjustments

sameValues(projected, players) ==
    /\ Len(projected) = Len(players)
    /\ \A i \in 1..Len(players) :
          /\ projected[i].PlayerId = players[i].PlayerId
          /\ projected[i].Value = players[i].Value

\* C7 (exclusion-aware side).
C7_ProjectionIdentityExcl ==
    (projectionRan /\ noEdits) => sameValues(display, result.players)

\* C7 (library side).
C7_ProjectionIdentityLib ==
    (libProjectionRan /\ noEdits) => sameValues(libDisplay, libResult.players)

\* C7.  Projection with no edits is the identity on values: with empty
\* pending and committed adjustments and the same poolAmount, the projection
\* of the players and constants of a full recompute gives every entity the
\* Value it has in the full recompute, for entity lists of any size.
C7_ProjectionIdentity == C7_ProjectionIdentityExcl /\ C7_ProjectionIdentityLib

sameStats(p, q) ==
    /\ p.cERA = q.cERA /\ p.cWHIP = q.cWHIP
    /\ p.cW = q.cW /\ p.cSV = q.cSV /\ p.cSO = q.cSO

workloadMonotone(players) ==
    \A i, j \in 1..Len(players) :
        (sameStats(players[i], players[j]) /\ players[i].IP > players[j].IP)
            => RatLeq(players[j].Value, players[i].Value)

\* C8 as stated.  Workload monotonicity: of two active entities with the
\* same rate and counting stats, the one with the larger IP has a Value
\* greater than or equal to the other's, whatever the population.
C8_WorkloadMonotone ==
    /\ baseRan => workloadMonotone(activeOf(result.players))
    /\ libRan => workloadMonotone(libResult.players)

\* _cERA <= means.ERA and _cWHIP <= means.WHIP, a mean being (sum, count)
notAboveMeans(p, constants) ==
    /\ constants.count * p.cERA <= constants.rateMeans.ERA
    /\ constants.count * p.cWHIP <= constants.rateMeans.WHIP

workloadMonotoneAtOrBelowMeans(players, constants) ==
    \A i, j \in 1..Len(players) :
        (/\ sameStats(players[i], players[j])
         /\ players[i].IP > players[j].IP
         /\ notAboveMeans(players[i], constants))
            => RatLeq(players[j].Value, players[i].Value)

\* C8, amended.  With poolAmount >= 0, of two active entities with the same
\* rate and counting stats whose ERA and WHIP are not above the means of the
\* active population, the one with the larger IP has a Value greater than
\* or equal to the other's.
C8_WorkloadMonotoneAtOrBelowMeans ==
    /\ (baseRan /\ hasSnapshot(result) /\ poolAmount >= 0) =>
          workloadMonotoneAtOrBelowMeans(activeOf(result.players), result.constants)
    /\ (libRan /\ hasSnapshot(libResult) /\ poolAmount >= 0) =>
          workloadMonotoneAtOrBelowMeans(libResult.players, libResult.constants)

\* two active entities with the same stats, better than the means, whose
\* Values differ with their workloads
C8_Witness ==
    /\ libRan
    /\ hasSnapshot(result)
    /\ With(activeOf(result.players), LAMBDA players :
          \E i, j \in 1..Len(players) :
              /\ sameStats(players[i], players[j])
              /\ players[i].IP > players[j].IP
              /\ notAboveMeans(players[i], result.constants)
              /\ players[i].cERA * result.constants.count < result.constants.rateMeans.ERA
              /\ RatLess(players[j].Value, players[i].Value))

workloadScenario ==
    /\ rawData = Roster(<<"AceHigh", "AceLow", "AvgJoe">>)
    /\ committedAdjustments = NoAdjustments
    /\ excludedPlayerIds = {}
    /\ poolAmount = DefaultPool

strictlyAbove(players, hi, lo) ==
    \E i, j \in 1..Len(players) :
        /\ players[i].PlayerId = hi
        /\ players[j].PlayerId = lo
        /\ players[i].rawZ > players[j].rawZ
        /\ RatLess(players[j].Value, players[i].Value)

\* C9.  In the three-entity scenario of the workload test (pool 1500, no
\* adjustments) the full recompute gives the workload-200 entity a strictly
\* greater composite score and a strictly greater Value than the
\* workload-50 entity.
C9_WorkloadScenario ==
    workloadScenario =>
        /\ baseRan => strictlyAbove(result.players, 1, 2)
        /\ libRan => strictlyAbove(libResult.players, 1, 2)

\* the scenario, after both recomputes
C9_Witness == workloadScenario /\ libRan /\ Len(libResult.players) = 3

allExcluded ==
    /\ validIds(rawData) # {}
    /\ validIds(rawData) \subseteq excludedPlayerIds

allReturnedWithZero(res) ==
    /\ MapRecord(res.players, "PlayerId")
          = MapRecord(SelectSeq(rawData, isValid), "PlayerId")
    /\ \A i \in 1..Len(res.players) : res.players[i].Value = Zero
    /\ res.constants = NullConstants

\* C10 (exclusion-aware recompute).
C10_AllExcludedExcl == (baseRan /\ allExcluded) => allReturnedWithZero(result)

\* C10 (baseData memo of App.jsx).
C10_AllExcludedApp == (appRan /\ allExcluded) => allReturnedWithZero(baseData)

\* C10.  When every valid entity is excluded, the full recompute returns
\* all valid entities, each with Value 0, and constants equal to null.
C10_AllExcluded == C10_AllExcludedExcl /\ C10_AllExcludedApp

\* no entity of the input has both an id and a name
noValidEntity ==
    \A i \in 1..Len(rawData) : rawData[i].Name = "" \/ rawData[i].PlayerId = 0

\* C11 as stated.  When the input entity list is empty or holds no entity
\* with both id and name, the full recompute returns an empty entity list
\* and constants equal to null.
C11_EmptyGivesNull ==
    /\ (baseRan /\ noValidEntity) =>
          (result.players = <<>> /\ result.constants = NullConstants)
    /\ (libRan /\ noValidEntity) =>
          (libResult.players = <<>> /\ libResult.constants = NullConstants)

\* C11, amended.  For such an input the full recompute returns an empty
\* entity list and an empty constants object, { players: [], constants: {} }.
C11_EmptyGivesEmptyObject ==
    /\ (baseRan /\ noValidEntity) => result = EmptyResult
    /\ (libRan /\ noValidEntity) => libResult = EmptyResult

\* a list of two entities, one without id and one without name, after both
\* recomputes
C11_Witness ==
    /\ libRan
    /\ Len(rawData) = 2
    /\ noValidEntity
    /\ result = EmptyResult
    /\ libResult = EmptyResult

\* C12.  When the constants snapshot is null, applyDisplayAdjustments
\* returns its input entity list unchanged, whatever the pending map, the
\* committed map and the pool amount: no stat, no Value and no edit-status
\* field differs.
C12_NullConstantsUnchanged ==
    /\ (projectionRan /\ result.constants = NullConstants) => display = result.players
    /\ libNullRan => libDisplay = libResult.players

\* the library's projection called with constants null on valued entities,
\* one of which has a pending and a committed delta
C12_Witness ==
    /\ libNullRan
    /\ hasSnapshot(libResult)
    /\ libResult.constants.positiveSum > 0
    /\ \E i \in 1..Len(libResult.players) :
          /\ AdjKey(libResult.players[i].PlayerId, "ERA") \in DOMAIN pendingAdjustments
          /\ AdjKey(libResult.players[i].PlayerId, "ERA") \in DOMAIN committedAdjustments

\* the input entities that have both an id and a name
cleaned == SelectSeq(rawData, LAMBDA r : r.Name # "" /\ r.PlayerId # 0)

idAndName(players) == {<<players[i].PlayerId, players[i].Name>> : i \in 1..Len(players)}

\* without an active entity the output entities carry no score
sameOutcome(res, alone) ==
    /\ Len(res.players) = Len(cleaned)
    /\ idAndName(res.players) = idAndName(cleaned)
    /\ alone.constants = res.constants
    /\ IF res.constants.kind = "null"
       THEN ValuesOf(alone.players) = ValuesOf(res.players)
       ELSE scoreAndValue(alone.players) = scoreAndValue(res.players)

\* C13.  Entities lacking an id or a name are dropped by the full
\* recompute: the output holds exactly the input entities that have both,
\* and the constants and every entity's score and Value are those of the
\* recompute of the input with the invalid entities removed beforehand.
C13_InvalidDropped ==
    /\ baseRan =>
          sameOutcome(result, calculateBaseValues(cleaned, committedAdjustments,
                                                  poolAmount, excludedPlayerIds))
    /\ libRan =>
          sameOutcome(libResult, calculateBaseValuesLib(cleaned, committedAdjustments,
                                                        poolAmount))

\* a list with an invalid entity among valid ones that get differing Values
C13_Witness ==
    /\ libRan
    /\ Len(cleaned) >= 2
    /\ Len(cleaned) < Len(rawData)
    /\ hasSnapshot(result)
    /\ result.constants.positiveSum > 0
    /\ libResult.constants.positiveSum > 0

FiveStats == {"ERA", "WHIP", "W", "SV", "SO"}

\* the input entity of id pid
rawOf(pid) == CHOOSE r \in {rawData[i] : i \in 1..Len(rawData)} : r.PlayerId = pid

\* the one delta that applies to a key: pending if present, else committed,
\* else 0
resolvedDelta(pid, stat) ==
    IF <<pid, stat>> \in DOMAIN pendingAdjustments THEN pendingAdjustments[<<pid, stat>>]
    ELSE IF <<pid, stat>> \in DOMAIN committedAdjustments
         THEN committedAdjustments[<<pid, stat>>]
         ELSE 0

statsResolved(projected) ==
    \A i \in 1..Len(projected) : \A stat \in FiveStats :
        projected[i][stat]
            = rawOf(projected[i].PlayerId)[stat] + resolvedDelta(projected[i].PlayerId, stat)

\* C14.  Delta resolution in projection: for every active entity and each
\* of the five stats, the projected stat is the raw stat plus exactly one
\* delta, the pending one if the pending map has the key (even when it is 0
\* and the committed one is not), otherwise the committed one, otherwise 0.
C14_DeltaResolution ==
    /\ (projectionRan /\ result.constants.kind # "null") =>
          statsResolved(activeOf(display))
    /\ libProjectionRan => statsResolved(libDisplay)
    /\ appProjectionRan => statsResolved(processedData)

\* a pending delta of 0 over a committed delta of 5 for the same key: the
\* projected stat is the raw one
C14_Witness ==
    /\ libProjectionRan
    /\ hasSnapshot(libResult)
    /\ <<1, "W">> \in DOMAIN pendingAdjustments
    /\ pendingAdjustments[<<1, "W">>] = 0
    /\ <<1, "W">> \in DOMAIN committedAdjustments
    /\ committedAdjustments[<<1, "W">>] # 0
    /\ \E i \in 1..Len(libDisplay) :
          libDisplay[i].PlayerId = 1 /\ libDisplay[i].W = rawOf(1).W

statusResolved(projected) ==
    \A i \in 1..Len(projected) : \A stat \in FiveStats :
        With(<<projected[i].PlayerId, stat>>, LAMBDA key :
            projected[i]["status_" \o stat] =
                IF key \in DOMAIN pendingAdjustments THEN "pending"
                ELSE IF key \in DOMAIN committedAdjustments
                        /\ committedAdjustments[key] # 0 THEN "changed"
                ELSE "default")

\* C15.  Edit status in projection: for every active entity and stat the
\* status is 'pending' exactly when the pending map has the key, whatever
\* its value, otherwise 'changed' exactly when the committed delta is not
\* 0, otherwise 'default'.
C15_EditStatus ==
    /\ (projectionRan /\ result.constants.kind # "null") =>
          statusResolved(activeOf(display))
    /\ libProjectionRan => statusResolved(libDisplay)
    /\ appProjectionRan => statusResolved(processedData)

\* one entity with a stat 'changed' (committed 5), and another with a stat
\* 'pending' and a stat 'default' under a committed delta of 0
C15_Witness ==
    /\ libProjectionRan
    /\ \E i, j \in 1..Len(libDisplay) :
          /\ libDisplay[i].status_W = "changed"
          /\ libDisplay[j].status_SV = "pending"
          /\ libDisplay[j].status_SO = "default"
          /\ <<libDisplay[j].PlayerId, "SO">> \in DOMAIN committedAdjustments

noPendingFor(pid) ==
    \A stat \in FiveStats : <<pid, stat>> \notin DOMAIN pendingAdjustments

\* max(0, score - replacementScore) / positiveSum * pool, for the entities
\* whose projected score is their recomputed one (no pending delta)
valueFromScore(projected, players, constants, pool) ==
    \A i \in 1..Len(players) :
        noPendingFor(players[i].PlayerId) =>
            projected[i].Value =
                IF players[i].valOverReplacement > 0
                THEN Rat(players[i].valOverReplacement * pool, constants.positiveSum)
                ELSE Zero

\* twice the Values projected with half the pool
twiceTheHalf(projected, half) ==
    /\ Len(half) = Len(projected)
    /\ \A i \in 1..Len(projected) :
          RatAdd(half[i].Value, half[i].Value) = projected[i].Value

\* C17.  The pool amount is not frozen in projection: with positiveSum > 0
\* the projected Value of every active entity is max(0, score -
\* replacementScore) / positiveSum times the poolAmount passed to the
\* projection, so doubling the poolAmount doubles every projected Value.
C17_PoolRescales ==
    /\ (projectionRan /\ canProject(result.constants)) =>
          /\ valueFromScore(activeOf(display), activeOf(result.players),
                            result.constants, poolAmount)
          /\ twiceTheHalf(activeOf(display),
                activeOf(applyDisplayAdjustments(result.players, pendingAdjustments,
                    committedAdjustments, result.constants, poolAmount \div 2)))
    /\ (libProjectionRan /\ canProject(libResult.constants)) =>
          /\ valueFromScore(libDisplay, libResult.players,
                            libResult.constants, poolAmount)
          /\ twiceTheHalf(libDisplay,
                applyDisplayAdjustmentsLib(libResult.players, pendingAdjustments,
                    committedAdjustments, libResult.constants, poolAmount \div 2))

\* an active entity whose pending delta moves its projected Value, which
\* stays positive
C17_Witness ==
    /\ projectionRan
    /\ canProject(result.constants)
    /\ poolAmount % 2 = 0
    /\ \E i \in 1..Len(display) :
          /\ ~display[i].isExcluded
          /\ ~noPendingFor(display[i].PlayerId)
          /\ RatLess(Zero, display[i].Value)
          /\ display[i].Value # result.players[i].Value

\* descending composite score
descending(players) ==
    \A i, j \in 1..Len(players) : i < j => players[i].rawZ >= players[j].rawZ

\* equal composite scores keep the input order (PlayerId is the input position)
tiesInInputOrder(players) ==
    \A i, j \in 1..Len(players) :
        (i < j /\ players[i].rawZ = players[j].rawZ) =>
            players[i].PlayerId < players[j].PlayerId

C18_SortedStableLib ==
    (libRan /\ hasSnapshot(libResult)) =>
        descending(libResult.players) /\ tiesInInputOrder(libResult.players)

C18_DescendingExcl ==
    (baseRan /\ hasSnapshot(result)) => descending(result.players)

C18_TiesInInputOrderExcl ==
    (baseRan /\ hasSnapshot(result)) => tiesInInputOrder(result.players)

\* C18.  The output of a full recompute is ordered by descending composite
\* score over active and excluded entities together, and two entities of
\* equal composite score appear in their input order, also when one of them
\* is excluded and the other active.
C18_SortedStable ==
    /\ C18_SortedStableLib
    /\ C18_DescendingExcl
    /\ C18_TiesInInputOrderExcl

Metrics == {"vERA", "vWHIP", "vW", "vSV", "vSO"}

metricOf(stat) == "v" \o stat

zeroStd(constants) == {k \in Metrics : constants.valStds[k] = 0}

\* the standardised distance of p on metric k, for a non-zero std
distance(p, k, constants) ==
    ((constants.count * p[k] - constants.valMeans[k]) * (ZScale * StdScale))
        \div constants.valStds[k]

RECURSIVE distanceSum(_, _, _)
distanceSum(p, ks, constants) ==
    IF ks = {} THEN 0
    ELSE LET k == CHOOSE x \in ks : TRUE
         IN  distance(p, k, constants) + distanceSum(p, ks \ {k}, constants)

\* the score of every entity is made of the metrics of non-zero std alone
zeroStdContributesNothing(res) ==
    \A i \in 1..Len(res.players) :
        res.players[i].rawZ =
            distanceSum(res.players[i], Metrics \ zeroStd(res.constants), res.constants)

\* the pending deltas on the stats whose metric has a non-zero std
pendingOnNonZeroStd(constants) ==
    [key \in {x \in DOMAIN pendingAdjustments : metricOf(x[2]) \notin zeroStd(constants)}
        |-> pendingAdjustments[key]]

\* C19.  Zero-variance guard: a metric on which all active entities have the
\* same impact value (std = 0) contributes 0 to the composite score of
\* every entity, active and excluded, in the full recompute, and 0 in
\* projection: the pending deltas on such a stat leave every projected
\* Value as it is without them.
C19_ZeroVarianceGuard ==
    /\ (baseRan /\ hasSnapshot(result)) => zeroStdContributesNothing(result)
    /\ (libRan /\ hasSnapshot(libResult)) => zeroStdContributesNothing(libResult)
    /\ (projectionRan /\ canProject(result.constants)) =>
          sameValues(display,
              applyDisplayAdjustments(result.players,
                  pendingOnNonZeroStd(result.constants), committedAdjustments,
                  result.constants, poolAmount))
    /\ (libProjectionRan /\ canProject(libResult.constants)) =>
          sameValues(libDisplay,
              applyDisplayAdjustmentsLib(libResult.players,
                  pendingOnNonZeroStd(libResult.constants), committedAdjustments,
                  libResult.constants, poolAmount))

\* an active entity of positive Value with a pending delta on a stat of zero
\* std, next to an excluded entity
C19_Witness ==
    /\ projectionRan
    /\ canProject(result.constants)
    /\ \E i, j \in 1..Len(display) :
          /\ display[j].isExcluded
          /\ ~display[i].isExcluded
          /\ RatLess(Zero, display[i].Value)
          /\ \E stat \in FiveStats :
                /\ metricOf(stat) \in zeroStd(result.constants)
                /\ AdjKey(display[i].PlayerId, stat) \in DOMAIN pendingAdjustments
                /\ pendingAdjustments[AdjKey(display[i].PlayerId, stat)]
                     # committedDelta(committedAdjustments, display[i].PlayerId, stat)

\* no entity of the active list strictly above the replacement level
noPositive(active) ==
    \A i \in 1..Len(active) : active[i].valOverReplacement <= 0

\* the active entities agree on the committed stats and the workload
allIdentical(active) ==
    \A i, j \in 1..Len(active) :
        /\ active[i].IP = active[j].IP
        /\ \A f \in {"cERA", "cWHIP", "cW", "cSV", "cSO"} : active[i][f] = active[j][f]

allValuesZero(players) == \A i \in 1..Len(players) : players[i].Value = Zero

\* res: the result of a recompute, active: its active entities, someActive:
\* the input holds a valid active entity
zeroSumResult(res, active, someActive) ==
    someActive =>
        /\ res.constants.kind = "full"
        /\ (Len(active) = 1 \/ allIdentical(active)) => noPositive(active)
        /\ noPositive(active) =>
              res.constants.positiveSum = 0 /\ allValuesZero(res.players)

\* C20.  When no active entity is strictly above the replacement level
\* (positiveSum = 0), as with a single active entity or with identical
\* active entities, the full recompute returns Value 0 for every entity and
\* a constants snapshot that is not null.
C20_ZeroSumTerminal ==
    /\ baseRan => zeroSumResult(result, SelectSeq(result.players, isActive),
            \E i \in 1..Len(cleaned) : cleaned[i].PlayerId \notin excludedPlayerIds)
    /\ libRan => zeroSumResult(libResult, libResult.players, Len(cleaned) > 0)

\* two identical active entities and an excluded one, positiveSum 0
C20_Witness ==
    /\ baseRan
    /\ hasSnapshot(result)
    /\ result.constants.positiveSum = 0
    /\ Len(activeOf(result.players)) >= 2
    /\ Len(activeOf(result.players)) < Len(result.players)

\* a step of handleStatChange
editStep ==
    \E playerId \in rowIds \cap EditedRows, stat \in EditedStats, sign \in {-1, 1} :
        HandleStatChange(playerId, stat, sign * stepOf(stat))

\* a step that changes none of the dependencies of the baseData memo
noCommitStep ==
    /\ committedAdjustments' = committedAdjustments
    /\ rawData' = rawData
    /\ loading' = loading
    /\ poolAmount' = poolAmount
    /\ excludedPlayerIds' = excludedPlayerIds

\* C16.  Pending edits never reach the population statistics: a step of
\* handleStatChange, with the projection that follows it, leaves the
\* committed adjustment map and the constants snapshot (means, stds,
\* replacement score, positiveSum) as they were; the snapshot changes only
\* in a step that changes an input of the full recompute.
C16_PendingEditsFrame ==
    [][/\ editStep => /\ committedAdjustments' = committedAdjustments
                      /\ baseData' = baseData
       /\ baseData'.constants # baseData.constants => ~noCommitStep]_vars

\* pending edits made on a loaded page whose projection has moved a Value
\* away from the one of the snapshot
C16_Witness ==
    /\ pc = "app"
    /\ edits > 0
    /\ hasPendingChanges
    /\ hasSnapshot(baseData)
    /\ \E i \in 1..Len(processedData) :
          processedData[i].Value # baseData.players[i].Value

StatusFields == {"status_ERA", "status_WHIP", "status_W", "status_SV", "status_SO"}

hasDeltaFor(pid) ==
    \E stat \in FiveStats :
        \/ AdjKey(pid, stat) \in DOMAIN pendingAdjustments
        \/ committedDelta(committedAdjustments, pid, stat) # 0

\* C21.  Projection short-circuits excluded entities: for an excluded
\* entity applyDisplayAdjustments returns the five stats exactly as they
\* are in its input record, neither pending nor committed deltas applied,
\* and adds no status, whatever the pending and committed maps.
C21_ExcludedShortCircuit ==
    projectionRan =>
        /\ Len(display) = Len(result.players)
        /\ \A i \in 1..Len(display) :
              result.players[i].isExcluded =>
                  /\ \A stat \in FiveStats : display[i][stat] = result.players[i][stat]
                  /\ DOMAIN display[i] \cap StatusFields = {}
                  /\ display[i].PlayerId = result.players[i].PlayerId

\* an excluded entity with a delta of its own, projected next to an active
\* entity that received its statuses
C21_Witness ==
    /\ projectionRan
    /\ hasSnapshot(result)
    /\ \E i, j \in 1..Len(display) :
          /\ result.players[i].isExcluded
          /\ hasDeltaFor(display[i].PlayerId)
          /\ ~result.players[j].isExcluded
          /\ StatusFields \subseteq DOMAIN display[j]

noWorkload(pid) == "IP" \notin DOMAIN rawOf(pid)

\* the sum of the committed values of a stat over the input entities es
committedSum(es, stat) ==
    SumSeq(AsSeq([i \in 1..Len(es) |->
        es[i][stat] + committedDelta(committedAdjustments, es[i].PlayerId, stat)]))

\* an entity without workload has IP 0 and rate impacts 0 in the output
zeroWorkload(players) ==
    \A i \in 1..Len(players) :
        noWorkload(players[i].PlayerId) =>
            players[i].IP = 0 /\ players[i].vERA = 0 /\ players[i].vWHIP = 0

\* the population es is counted whole, its entities without workload too,
\* in the means and in the ranked list
countedAndRanked(res, es, ranked) ==
    /\ res.constants.count = Len(es)
    /\ res.constants.rateMeans.ERA = committedSum(es, "ERA")
    /\ res.constants.rateMeans.WHIP = committedSum(es, "WHIP")
    /\ {res.players[i].PlayerId : i \in 1..Len(res.players)}
         = {ranked[i].PlayerId : i \in 1..Len(ranked)}
    /\ descending(res.players)

\* C23.  An entity whose workload (IP) is missing is treated as workload 0:
\* its ERA impact and WHIP impact are exactly 0 in the full recompute, its
\* output record carries IP = 0, and it still takes part in the population
\* means and in the ranking.
C23_MissingWorkload ==
    /\ (libRan /\ hasSnapshot(libResult)) =>
          /\ zeroWorkload(libResult.players)
          /\ countedAndRanked(libResult, cleaned, cleaned)
    /\ (baseRan /\ hasSnapshot(result)) =>
          /\ zeroWorkload(result.players)
          /\ countedAndRanked(result,
                 SelectSeq(cleaned, LAMBDA r : r.PlayerId \notin excludedPlayerIds),
                 cleaned)

\* an entity without workload whose ERA is not the mean, ranked with
\* entities that have a workload
C23_Witness ==
    /\ libRan
    /\ hasSnapshot(libResult)
    /\ libResult.constants.positiveSum > 0
    /\ \E i \in 1..Len(libResult.players) :
          /\ noWorkload(libResult.players[i].PlayerId)
          /\ libResult.constants.count * libResult.players[i].cERA
               # libResult.constants.rateMeans.ERA
          /\ libResult.players[i].Value # Zero

\* the pending map without the entry of key, and with that entry changed
withoutEntry(key) ==
    [x \in DOMAIN pendingAdjustments \ {key} |-> pendingAdjustments[x]]

withEntryChanged(key) == [pendingAdjustments EXCEPT ![key] = @ + 1]

libProjectionWith(pending) ==
    applyDisplayAdjustmentsLib(libResult.players, pending, committedAdjustments,
                               libResult.constants, poolAmount)

\* the records of every entity but e are the same in both outputs
othersSame(a, b, e) ==
    /\ Len(a) = Len(b)
    /\ \A i \in 1..Len(a) : a[i].PlayerId # e => a[i] = b[i]

\* same length and same entity order as the input list
sameOrder(projected, players) ==
    /\ Len(projected) = Len(players)
    /\ \A i \in 1..Len(players) : projected[i].PlayerId = players[i].PlayerId

\* C27.  Projection is per-entity: for fixed players, committed map,
\* constants and pool amount, adding or changing one pending entry for
\* entity e changes only the record of e in the output of
\* applyDisplayAdjustments; every other record is the same as without the
\* entry, and the output has the length and the entity order of the input.
C27_ProjectionPerEntity ==
    libProjectionRan =>
        /\ sameOrder(libDisplay, libResult.players)
        /\ \A key \in DOMAIN pendingAdjustments :
              /\ othersSame(libDisplay, libProjectionWith(withoutEntry(key)), key[1])
              /\ othersSame(libDisplay, libProjectionWith(withEntryChanged(key)), key[1])

\* a pending entry that moves the Value of its entity, the list holding
\* another entity of positive Value
C27_Witness ==
    /\ libProjectionRan
    /\ canProject(libResult.constants)
    /\ \E key \in DOMAIN pendingAdjustments :
          \E i, j \in 1..Len(libDisplay) :
              /\ libDisplay[i].PlayerId = key[1]
              /\ libDisplay[i].Value # libProjectionWith(withoutEntry(key))[i].Value
              /\ libDisplay[j].PlayerId # key[1]
              /\ RatLess(Zero, libDisplay[j].Value)

\* C28.  Whenever a full recompute returns a constants snapshot that is not
\* null, with at least one active entity, the replacement score is the
\* composite score of some active entity (the negative sentinel is never
\* emitted), positiveSum is >= 0, and at least one active entity has
\* Value 0.
C28_ReplacementIsAScore ==
    (baseRan /\ hasSnapshot(result)) =>
        /\ \E i \in 1..Len(result.players) :
              /\ ~result.players[i].isExcluded
              /\ result.players[i].rawZ = result.constants.replacementLevelZ
        /\ result.constants.replacementLevelZ # -(SentinelZ * ZScale)
        /\ result.constants.positiveSum >= 0
        /\ \E i \in 1..Len(result.players) :
              ~result.players[i].isExcluded /\ result.players[i].Value = Zero

\* more active entities than the replacement rank, an excluded one among
\* the entities, and a pool that is distributed
C28_Witness ==
    /\ baseRan
    /\ hasSnapshot(result)
    /\ result.constants.positiveSum > 0
    /\ Len(activeOf(result.players)) > ReplacementRank + 1
    /\ Len(activeOf(result.players)) < Len(result.players)

\* the Values of a full recompute over the raw entities of the page with
\* its committed map, against the Values on display
recomputedFor(processed, data, excluded, adjustmentMap, pool) ==
    sameValues(processed,
        calculateBaseValuesLib(withoutExcluded(data, excluded), adjustmentMap, pool).players)

displayedIsRecomputed ==
    recomputedFor(processedData, rawData, excludedPlayerIds, committedAdjustments,
                  poolAmount)

commitIsDisplayed ==
    /\ pendingAdjustments' = NoAdjustments
    /\ committedAdjustments' = merged(committedAdjustments, savingPending)
    /\ recomputedFor(processedData', rawData', excludedPlayerIds', committedAdjustments',
                     poolAmount')

\* C22.  Commit triggers a full recompute: after a successful saveChanges
\* the pending map is empty, the committed map is the old committed map
\* overridden by the pending entries that were saved, and the displayed
\* Value of every entity is the Value of a full recompute over the raw
\* entities with the new committed map.
C22_CommitRecomputes == [][SaveSucceeded => commitIsDisplayed]_vars

\* a save completed with entries that changed the committed map and the
\* Values on display
C22_Witness ==
    /\ pc = "app"
    /\ saves > 0
    /\ ~isSaving
    /\ ~hasPendingChanges
    /\ committedAdjustments # adjMapOf(batchUpsert(<<>>, updatesOf(AdjKey(1, "W") :> 5)))
    /\ hasSnapshot(baseData)
    /\ displayedIsRecomputed

\* the pending entries recorded since the save began
recordedInFlight ==
    {key \in DOMAIN pendingAdjustments :
        key \notin DOMAIN savingPending \/ savingPending[key] # pendingAdjustments[key]}

saveCompletes == SaveSucceeded \/ SaveAnsweredError \/ SaveFailed

\* C24.  No edit is lost across a save: a pending delta recorded by
\* handleStatChange while a saveChanges call is in flight is still in the
\* pending map or in the committed map once that save completes.
C24_NoEditLost ==
    [][saveCompletes =>
        \A key \in recordedInFlight :
            \/ /\ key \in DOMAIN pendingAdjustments'
               /\ pendingAdjustments'[key] = pendingAdjustments[key]
            \/ /\ key \in DOMAIN committedAdjustments'
               /\ committedAdjustments'[key] = pendingAdjustments[key]]_vars

\* C25.  A failed save changes nothing locally: when the batch-adjustments
\* request fails, by a rejection or by an error answer of the store, the
\* pending map and the committed map are left unchanged, and isSaving is
\* false again once saveChanges returns in every case.
C25_FailedSaveChangesNothing ==
    [][/\ (SaveFailed \/ SaveAnsweredError) =>
             /\ pendingAdjustments' = pendingAdjustments
             /\ committedAdjustments' = committedAdjustments
       /\ saveCompletes => ~isSaving']_vars

C25_RejectedSaveChangesNothing ==
    [][/\ SaveFailed =>
             /\ pendingAdjustments' = pendingAdjustments
             /\ committedAdjustments' = committedAdjustments
       /\ saveCompletes => ~isSaving']_vars

\* the value stored for every entity that was sent is its Value in rows
storedAs(table, rows) ==
    \A i \in 1..Len(savingValues) :
        \E j \in 1..Len(table), k \in 1..Len(rows) :
            /\ table[j].playerId = savingValues[i].playerId
            /\ rows[k].PlayerId = savingValues[i].playerId
            /\ table[j].value = rows[k].Value

\* C26.  The values that saveChanges sends to the value-snapshot store are,
\* for every entity, the Value of a full recompute over the raw entities
\* with the committed map after the merge: the persisted values are the
\* values displayed once the commit has completed.
C26_PersistedAreDisplayed ==
    [][SaveSucceeded =>
        /\ storedAs(player_values', processedData')
        /\ storedAs(player_values',
              calculateBaseValuesLib(withoutExcluded(rawData', excludedPlayerIds'),
                                     committedAdjustments', poolAmount').players)]_vars

storedDelta(table, playerId, stat) ==
    IF rowIndex(table, playerId, stat) = 0 THEN "none"
    ELSE table[rowIndex(table, playerId, stat)].delta

oneRowPerKey(table) ==
    \A i, j \in 1..Len(table) :
        (table[i].playerId = table[j].playerId /\ table[i].stat = table[j].stat) => i = j

\* the positions of the array that name the key
namedAt(items, playerId, stat) ==
    {i \in 1..Len(items) : items[i].playerId = playerId /\ items[i].stat = stat}

\* after the array of upserts every key it names holds the delta of its
\* last position in the array, and every other key what it held
lastUpsertWins(items) ==
    \A key \in StoreKeys :
        With(namedAt(items, key[1], key[2]), LAMBDA at :
            IF at = {}
            THEN storedDelta(adjustmentsTable', key[1], key[2])
                    = storedDelta(adjustmentsTable, key[1], key[2])
            ELSE storedDelta(adjustmentsTable', key[1], key[2])
                    = items[CHOOSE i \in at : \A k \in at : k <= i].delta)

\* what each answer of the two handlers leaves in the table
upsertsInOrder ==
    /\ \A body \in StoreAdjustments :
          PostAdjustment(body) => lastUpsertWins(<<body>>)
    /\ \A body \in StoreBatches :
          PostBatchAdjustments(body) =>
              lastUpsertWins(IF body.isArray THEN body.items ELSE <<>>)

\* C30.  Adjustment store upsert: after any sequence of single upserts and
\* batch upserts the store holds at most one row per (playerId, stat); the
\* delta stored for a key is the delta of the last upsert of that key in
\* processing order, within a batch in array order, and a key that no
\* upsert names keeps its stored delta.
C30_UpsertLastWins ==
    /\ []oneRowPerKey(adjustmentsTable)
    /\ [][upsertsInOrder]_vars

\* a row for every key, the row of 2-W appended by a request behind the
\* rows stored before: 1-W holds the delta of a request, 3-W the delta it
\* was stored with
C30_Witness ==
    /\ loading
    /\ Len(adjustmentsTable) = Cardinality(StoreKeys)
    /\ oneRowPerKey(adjustmentsTable)
    /\ storedDelta(adjustmentsTable, 1, "W") = 2
    /\ storedDelta(adjustmentsTable, 3, "W") = 7
    /\ adjustmentsTable[Len(adjustmentsTable)].playerId = 2

====
